---- MODULE Spec2Model ----
(***************************************************************************)
(* call_api_check: forwarding of check plugin invocations to the           *)
(* icinga-powershell-restapi daemon.                                       *)
(*                                                                         *)
(* Text is modelled as a sequence of characters, a character as a string   *)
(* of length one ("a", "-", ...).  A character outside ASCII is written    *)
(* by its code point ("U+00E9") and occupies more than one byte in the     *)
(* UTF-8 encoding Rust uses for str.  The backtick is written by its code  *)
(* point as well.                                                          *)
(***************************************************************************)
EXTENDS Integers, Sequences, FiniteSets, TLC

(***************************************************************************)
(* Characters                                                              *)
(***************************************************************************)
Digits == {"0", "1", "2", "3", "4", "5", "6", "7", "8", "9"}

AsciiLower == {"a", "b", "c", "d", "e", "f", "g", "h", "i", "j", "k", "l", "m",
               "n", "o", "p", "q", "r", "s", "t", "u", "v", "w", "x", "y", "z"}

AsciiUpper == {"A", "B", "C", "D", "E", "F", "G", "H", "I", "J", "K", "L", "M",
               "N", "O", "P", "Q", "R", "S", "T", "U", "V", "W", "X", "Y", "Z"}

\* alphabetic characters outside ASCII (e acute, sharp s)
NonAsciiAlphabetic == {"U+00E9", "U+00DF"}

\* the backtick character, PowerShell's escape character
Backtick == "U+0060"

\* char::is_ascii_alphabetic
is_ascii_alphabetic(c) == c \in AsciiLower \cup AsciiUpper

\* char::is_alphabetic: the Unicode Alphabetic property
is_alphabetic(c) == c \in AsciiLower \cup AsciiUpper \cup NonAsciiAlphabetic

\* char::len_utf8: the number of bytes of the character in a str
len_utf8(c) == IF c \in NonAsciiAlphabetic THEN 2 ELSE 1

\* str::starts_with(char)
starts_with(s, c) == Len(s) >= 1 /\ s[1] = c

\* the characters of s from the n-th (1-based) on
DropChars(s, n) == IF n > Len(s) THEN << >> ELSE SubSeq(s, n, Len(s))

(***************************************************************************)
(* Number literals: str::parse::<f64>, ::<u64>, ::<i64>                    *)
(***************************************************************************)
RECURSIVE DigitRun(_, _)
\* the number of consecutive decimal digits of s that start at index i
DigitRun(s, i) ==
    IF i <= Len(s) /\ s[i] \in Digits THEN 1 + DigitRun(s, i + 1) ELSE 0

ToAsciiLower(c) ==
    CASE c = "I" -> "i" [] c = "N" -> "n" [] c = "F" -> "f" [] c = "A" -> "a"
      [] c = "T" -> "t" [] c = "Y" -> "y" [] c = "E" -> "e" [] OTHER -> c

LowerStr(s) == [i \in 1..Len(s) |-> ToAsciiLower(s[i])]

\* Number ::= ( Digit+ | Digit+ '.' Digit* | Digit* '.' Digit+ ) Exp?
\* Exp    ::= 'e' Sign? Digit+
IsDecimalNumber(r) ==
    LET n1     == DigitRun(r, 1)
        p      == 1 + n1
        hasDot == p <= Len(r) /\ r[p] = "."
        n2     == IF hasDot THEN DigitRun(r, p + 1) ELSE 0
        q      == IF hasDot THEN p + 1 + n2 ELSE p
        q2     == IF q + 1 <= Len(r) /\ r[q + 1] \in {"+", "-"} THEN q + 2 ELSE q + 1
        n3     == DigitRun(r, q2)
    IN  /\ n1 + n2 >= 1
        /\ \/ q = Len(r) + 1
           \/ /\ q <= Len(r)
              /\ ToAsciiLower(r[q]) = "e"
              /\ n3 >= 1
              /\ q2 + n3 = Len(r) + 1

\* Float ::= Sign? ( 'inf' | 'infinity' | 'nan' | Number ), letters in any case
ParsesAsF64(s) ==
    LET r == IF Len(s) >= 1 /\ s[1] \in {"+", "-"} THEN DropChars(s, 2) ELSE s
    IN  \/ LowerStr(r) \in { <<"i", "n", "f">>,
                             <<"i", "n", "f", "i", "n", "i", "t", "y">>,
                             <<"n", "a", "n">> }
        \/ IsDecimalNumber(r)

RECURSIVE StripZeros(_)
\* the decimal digits without leading zeros ("0" for zero)
StripZeros(d) ==
    IF Len(d) > 1 /\ d[1] = "0" THEN StripZeros(Tail(d)) ELSE d

DigitValue(c) ==
    CASE c = "0" -> 0 [] c = "1" -> 1 [] c = "2" -> 2 [] c = "3" -> 3 [] c = "4" -> 4
      [] c = "5" -> 5 [] c = "6" -> 6 [] c = "7" -> 7 [] c = "8" -> 8 [] c = "9" -> 9

RECURSIVE DigitsLeq(_, _)
\* a <= b for two canonical digit strings
DigitsLeq(a, b) ==
    IF Len(a) # Len(b) THEN Len(a) < Len(b)
    ELSE IF a = << >> THEN TRUE
    ELSE IF a[1] # b[1] THEN DigitValue(a[1]) < DigitValue(b[1])
    ELSE DigitsLeq(Tail(a), Tail(b))

\* u64::MAX = 18446744073709551615
U64Max == <<"1", "8", "4", "4", "6", "7", "4", "4", "0", "7",
            "3", "7", "0", "9", "5", "5", "1", "6", "1", "5">>

\* i64::MAX = 9223372036854775807
I64Max == <<"9", "2", "2", "3", "3", "7", "2", "0", "3", "6",
            "8", "5", "4", "7", "7", "5", "8", "0", "7">>

\* -i64::MIN = 9223372036854775808
I64MinAbs == <<"9", "2", "2", "3", "3", "7", "2", "0", "3", "6",
               "8", "5", "4", "7", "7", "5", "8", "0", "8">>

NoInt == [ok |-> FALSE, neg |-> FALSE, digits |-> << >>]

\* str::parse::<u64>: an optional '+', then one or more digits, at most u64::MAX.
\* The value is kept as its canonical decimal digits.
ParseU64(s) ==
    LET d == IF starts_with(s, "+") THEN DropChars(s, 2) ELSE s
    IN  IF Len(d) >= 1 /\ DigitRun(d, 1) = Len(d) /\ DigitsLeq(StripZeros(d), U64Max)
        THEN [ok |-> TRUE, neg |-> FALSE, digits |-> StripZeros(d)]
        ELSE NoInt

\* str::parse::<i64>: an optional '+' or '-', then one or more digits, in i64's range
ParseI64(s) ==
    LET signed == Len(s) >= 1 /\ s[1] \in {"+", "-"}
        minus  == starts_with(s, "-")
        d      == IF signed THEN DropChars(s, 2) ELSE s
        c      == StripZeros(d)
    IN  IF /\ Len(d) >= 1
           /\ DigitRun(d, 1) = Len(d)
           /\ DigitsLeq(c, IF minus THEN I64MinAbs ELSE I64Max)
        THEN [ok |-> TRUE, neg |-> minus /\ c # <<"0">>, digits |-> c]
        ELSE NoInt

\* a classifier that tries the signed integer first, whatever the first character
NumberParse_SignedFirst(number) ==
    LET signed   == ParseI64(number)
        unsigned == ParseU64(number)
    IN  IF signed.ok
        THEN [kind |-> "NegInt", neg |-> signed.neg, digits |-> signed.digits]
        ELSE IF unsigned.ok
        THEN [kind |-> "PosInt", neg |-> FALSE, digits |-> unsigned.digits]
        ELSE IF ParsesAsF64(number)
        THEN [kind |-> "Float", neg |-> FALSE, digits |-> number]
        ELSE [kind |-> "None", neg |-> FALSE, digits |-> << >>]

\* Number::parse.  kind "None" is Option::None.
NumberParse(number) ==
    LET signed   == ParseI64(number)
        unsigned == ParseU64(number)
    IN  IF Len(number) >= 1 /\ number[1] = "-" /\ signed.ok
        THEN [kind |-> "NegInt", neg |-> signed.neg, digits |-> signed.digits]
        ELSE IF Len(number) >= 1 /\ number[1] # "-" /\ unsigned.ok
        THEN [kind |-> "PosInt", neg |-> FALSE, digits |-> unsigned.digits]
        ELSE IF ParsesAsF64(number)
        THEN [kind |-> "Float", neg |-> FALSE, digits |-> number]
        ELSE [kind |-> "None", neg |-> FALSE, digits |-> << >>]

(***************************************************************************)
(* Tokens and the lexer                                                    *)
(***************************************************************************)
TokString(text)   == [kind |-> "String", val |-> text]
TokNumber(lexeme) == [kind |-> "Number", val |-> lexeme]
TokBool(bit)      == [kind |-> "Bool", val |-> bit]
TokComma          == [kind |-> "Comma", val |-> << >>]
TokArrayBegin     == [kind |-> "ArrayBegin", val |-> << >>]
TokArrayEnd       == [kind |-> "ArrayEnd", val |-> << >>]
TokArrayOpBegin   == [kind |-> "ArrayOpBegin", val |-> << >>]
TokArrayOpEnd     == [kind |-> "ArrayOpEnd", val |-> << >>]

\* Lexer::from_str.  status is "Run" while lexing, "Err" once a scan function
\* returned Err(Error::Lexer), "Panic" once the thread panicked.
LexerFromStr(input) ==
    [input |-> input, tokens |-> << >>, state |-> "Control",
     escaping |-> FALSE, buf |-> << >>, status |-> "Run"]

\* a number test that looks at the first character only
is_number_FirstDigit(l) == l.buf # << >> /\ l.buf[1] \in Digits

\* Lexer::is_number
is_number(l) == ParsesAsF64(l.buf)

\* Lexer::is_bool: "Some(true)", "Some(false)" or "None"
is_bool(l) ==
    IF l.buf = <<"$", "T", "r", "u", "e">> THEN "SomeTrue"
    ELSE IF l.buf = <<"$", "F", "a", "l", "s", "e">> THEN "SomeFalse"
    ELSE "None"

\* a flush that emits a token for an empty accumulator as well
store_buf_as_token_EmptyToo(l) ==
    IF is_number(l)
    THEN [l EXCEPT !.tokens = Append(@, TokNumber(l.buf)), !.buf = << >>]
    ELSE IF is_bool(l) # "None"
    THEN [l EXCEPT !.tokens = Append(@, TokBool(is_bool(l) = "SomeTrue")),
                   !.buf = << >>]
    ELSE [l EXCEPT !.tokens = Append(@, TokString(l.buf)), !.buf = << >>]

\* Lexer::store_buf_as_token
store_buf_as_token(l) ==
    IF l.buf # << >>
    THEN IF is_number(l)
         THEN [l EXCEPT !.tokens = Append(@, TokNumber(l.buf)), !.buf = << >>]
         ELSE IF is_bool(l) # "None"
         THEN [l EXCEPT !.tokens = Append(@, TokBool(is_bool(l) = "SomeTrue")),
                        !.buf = << >>]
         ELSE [l EXCEPT !.tokens = Append(@, TokString(l.buf)), !.buf = << >>]
    ELSE l

\* Lexer::eat(1): self.input = &self.input[1..], a slice at BYTE offset 1, which
\* panics unless that offset is a character boundary
eat(l) ==
    IF len_utf8(l.input[1]) = 1
    THEN [l EXCEPT !.input = Tail(@)]
    ELSE [l EXCEPT !.status = "Panic"]

PushBuf(l, c)   == [l EXCEPT !.buf = Append(@, c)]
PushToken(l, t) == [l EXCEPT !.tokens = Append(@, t)]

\* Lexer::scan_control
scan_control(l) ==
    IF l.input = << >> THEN l
    ELSE LET peeked_char == l.input[1]
             e == eat(l)
         IN  IF e.status = "Panic" THEN e
             ELSE IF e.escaping THEN [PushBuf(e, peeked_char) EXCEPT !.escaping = FALSE]
             ELSE IF peeked_char = "\"" THEN [e EXCEPT !.state = "DoubleQuote"]
             ELSE IF peeked_char = "'" THEN [e EXCEPT !.state = "SingleQuote"]
             ELSE IF peeked_char \in {" ", "\t", "\r"} THEN e
             ELSE IF peeked_char = "[" THEN PushToken(e, TokArrayBegin)
             ELSE IF peeked_char = "]" THEN PushToken(store_buf_as_token(e), TokArrayEnd)
             ELSE IF peeked_char = "("
                  THEN [PushBuf(e, peeked_char) EXCEPT !.state = "ParanthesesCmd"]
             ELSE IF peeked_char = ")" THEN PushToken(store_buf_as_token(e), TokArrayOpEnd)
             ELSE IF peeked_char = Backtick THEN [e EXCEPT !.escaping = TRUE]
             ELSE IF peeked_char = "," THEN PushToken(store_buf_as_token(e), TokComma)
             ELSE IF peeked_char = "@" THEN [e EXCEPT !.state = "MaybeArrayOp"]
             ELSE PushBuf(e, peeked_char)

\* a single-quote scanner that emits the quoted text as a String whatever it
\* holds
scan_singlequote_AlwaysString(l) ==
    IF l.input = << >> THEN [l EXCEPT !.status = "Err"]
    ELSE LET peeked_char == l.input[1]
             e == eat(l)
         IN  IF e.status = "Panic" THEN e
             ELSE IF peeked_char = "'"
                  THEN IF e.buf # << >>
                       THEN [e EXCEPT !.tokens = Append(@, TokString(e.buf)),
                                      !.buf = << >>, !.state = "Control"]
                       ELSE [e EXCEPT !.state = "Control"]
             ELSE PushBuf(e, peeked_char)

\* Lexer::scan_singlequote
scan_singlequote(l) ==
    IF l.input = << >> THEN [l EXCEPT !.status = "Err"]
    ELSE LET peeked_char == l.input[1]
             e == eat(l)
         IN  IF e.status = "Panic" THEN e
             ELSE IF peeked_char = "'"
                  THEN [store_buf_as_token(e) EXCEPT !.state = "Control"]
             ELSE PushBuf(e, peeked_char)

\* a scan of double quotes that takes a comma for the comma operator
scan_doublequote_Comma(l) ==
    IF l.input = << >> THEN [l EXCEPT !.status = "Err"]
    ELSE LET peeked_char == l.input[1]
             e == eat(l)
         IN  IF e.status = "Panic" THEN e
             ELSE IF e.escaping THEN [PushBuf(e, peeked_char) EXCEPT !.escaping = FALSE]
             ELSE IF peeked_char = Backtick THEN [e EXCEPT !.escaping = TRUE]
             ELSE IF peeked_char = "\""
                  THEN [store_buf_as_token(e) EXCEPT !.state = "Control"]
             ELSE IF peeked_char = "," THEN PushToken(store_buf_as_token(e), TokComma)
             ELSE PushBuf(e, peeked_char)

\* Lexer::scan_doublequote
scan_doublequote(l) ==
    IF l.input = << >> THEN [l EXCEPT !.status = "Err"]
    ELSE LET peeked_char == l.input[1]
             e == eat(l)
         IN  IF e.status = "Panic" THEN e
             ELSE IF e.escaping THEN [PushBuf(e, peeked_char) EXCEPT !.escaping = FALSE]
             ELSE IF peeked_char = Backtick THEN [e EXCEPT !.escaping = TRUE]
             ELSE IF peeked_char = "\""
                  THEN [store_buf_as_token(e) EXCEPT !.state = "Control"]
             ELSE PushBuf(e, peeked_char)

\* a scan of a parenthesised run that leaves the closing ')' out of the token
scan_parantheses_cmd_NoClose(l) ==
    IF l.input = << >> THEN [l EXCEPT !.status = "Err"]
    ELSE LET peeked_char == l.input[1]
             e == eat(l)
             pushed == PushBuf(e, peeked_char)
         IN  IF e.status = "Panic" THEN e
             ELSE IF peeked_char = ")"
                  THEN [store_buf_as_token(e) EXCEPT !.state = "Control"]
             ELSE pushed

\* Lexer::scan_parantheses_cmd
scan_parantheses_cmd(l) ==
    IF l.input = << >> THEN [l EXCEPT !.status = "Err"]
    ELSE LET peeked_char == l.input[1]
             e == eat(l)
             pushed == PushBuf(e, peeked_char)
         IN  IF e.status = "Panic" THEN e
             ELSE IF peeked_char = ")"
                  THEN [store_buf_as_token(pushed) EXCEPT !.state = "Control"]
             ELSE pushed

\* Lexer::scan_maybearrayop
scan_maybearrayop(l) ==
    IF l.input = << >> THEN [l EXCEPT !.status = "Err"]
    ELSE LET peeked_char == l.input[1]
             e == eat(l)
         IN  IF e.status = "Panic" THEN e
             ELSE IF peeked_char = "("
                  THEN [PushToken(e, TokArrayOpBegin) EXCEPT !.state = "Control"]
             ELSE [PushBuf(PushBuf(e, "@"), peeked_char) EXCEPT !.state = "Control"]

\* one iteration of the while loop of Lexer::lex: the scan function of the state
LexStep(l) ==
    CASE l.state = "Control"        -> scan_control(l)
      [] l.state = "SingleQuote"    -> scan_singlequote(l)
      [] l.state = "DoubleQuote"    -> scan_doublequote(l)
      [] l.state = "MaybeArrayOp"   -> scan_maybearrayop(l)
      [] l.state = "ParanthesesCmd" -> scan_parantheses_cmd(l)

RECURSIVE LexLoop(_)
\* the while loop of Lexer::lex, then the final store_buf_as_token
LexLoop(l) ==
    IF l.status # "Run" THEN l
    ELSE IF l.input # << >> THEN LexLoop(LexStep(l))
    ELSE store_buf_as_token(l)

\* an end of lex that fails when the input ends outside Control state
LexEnd_ErrOutsideControl(l) ==
    IF l.state # "Control" THEN [l EXCEPT !.status = "Err"] ELSE store_buf_as_token(l)

\* Lexer::lex once the while loop is left: the final store_buf_as_token
LexEnd(l) == store_buf_as_token(l)

\* Lexer::lex: Ok(tokens), Err(Error::Lexer) or a panic
lex(input) ==
    LET l == LexLoop(LexerFromStr(input))
    IN  IF l.status = "Run" THEN [kind |-> "Ok", tokens |-> l.tokens]
        ELSE [kind |-> l.status, tokens |-> << >>]

(***************************************************************************)
(* CliArgument values and the parser.  self.input of Parser is the slice   *)
(* of tokens not consumed yet; every production returns the slice it       *)
(* leaves behind.  kind "Panic" is the unwrap of parse_skalar failing.     *)
(***************************************************************************)
ArgString(text) == [kind |-> "String", val |-> text]
ArgNumber(n)    == [kind |-> "Number", val |-> n]
ArgBool(bit)    == [kind |-> "Bool", val |-> bit]
ArgArray(elems) == [kind |-> "Array", val |-> elems]

POk(v, rest) == [kind |-> "Ok", val |-> v, input |-> rest]
PErr(rest)   == [kind |-> "Err", val |-> << >>, input |-> rest]
PPanic(rest) == [kind |-> "Panic", val |-> << >>, input |-> rest]

\* Parser::parse_newtype_token
parse_newtype_token(input, token) ==
    IF input # << >> /\ input[1] = token
    THEN POk(token, Tail(input))
    ELSE PErr(input)

\* Parser::parse_skalar
parse_skalar(input) ==
    LET OfNumber(number) ==
            IF number.kind = "None" THEN PPanic(input)
            ELSE POk(ArgNumber(number), Tail(input))
    IN  IF input # << >>
        THEN CASE input[1].kind = "String" -> POk(ArgString(input[1].val), Tail(input))
               [] input[1].kind = "Number" -> OfNumber(NumberParse(input[1].val))
               [] input[1].kind = "Bool" -> POk(ArgBool(input[1].val), Tail(input))
               [] OTHER -> PErr(input)
        ELSE PErr(input)

RECURSIVE parse_array(_)
RECURSIVE parse_element(_)
RECURSIVE parse_sequence(_)
RECURSIVE SequenceLoop(_, _)

\* Parser::parse_element
parse_element(input) ==
    LET OrArray(array) == IF array.kind = "Err" THEN PErr(input) ELSE array
        OrElse(skalar) ==
            IF skalar.kind # "Err" THEN skalar ELSE OrArray(parse_array(skalar.input))
    IN  OrElse(parse_skalar(input))

\* the loop of Parser::parse_sequence
SequenceLoop(sequence, input) ==
    LET AfterElement(element) ==
            IF element.kind = "Ok"
            THEN SequenceLoop(Append(sequence, element.val), element.input)
            ELSE IF element.kind = "Panic" THEN element
            ELSE POk(sequence, element.input)
        AfterComma(comma) ==
            IF comma.kind = "Err" THEN POk(sequence, comma.input)
            ELSE AfterElement(parse_element(comma.input))
    IN  AfterComma(parse_newtype_token(input, TokComma))

\* Parser::parse_sequence
parse_sequence(input) ==
    LET AfterElement(element) ==
            IF element.kind = "Ok" THEN SequenceLoop(<<element.val>>, element.input)
            ELSE IF element.kind = "Panic" THEN element
            ELSE PErr(input)
    IN  AfterElement(parse_element(input))

\* Parser::parse_array: the opening token, an optional sequence, the closing
\* token that matches the opening one, else back to the start
parse_array(input) ==
    LET Close(sequence_by_array, close) ==
            IF close.kind = "Ok" THEN POk(ArgArray(sequence_by_array), close.input)
            ELSE PErr(input)
        Body(sequence, closing) ==
            IF sequence.kind = "Panic" THEN sequence
            ELSE Close(IF sequence.kind = "Ok" THEN sequence.val ELSE << >>,
                       parse_newtype_token(sequence.input, closing))
        Open(begin, opbegin) ==
            IF begin.kind = "Ok" \/ opbegin.kind = "Ok"
            THEN Body(parse_sequence(Tail(input)),
                      IF begin.kind = "Ok" THEN TokArrayEnd ELSE TokArrayOpEnd)
            ELSE PErr(input)
    IN  Open(parse_newtype_token(input, TokArrayBegin),
             parse_newtype_token(input, TokArrayOpBegin))

\* a comma operator that leaves the cursor after the element when the comma
\* is missing
parse_comma_op_NoBacktrack(input) ==
    LET AfterComma(element, comma) ==
            IF comma.kind = "Ok" THEN POk(<<element.val>>, comma.input)
            ELSE PErr(comma.input)
        AfterElement(element) ==
            IF element.kind = "Panic" THEN element
            ELSE IF element.kind = "Ok"
                 THEN AfterComma(element, parse_newtype_token(element.input, TokComma))
            ELSE PErr(input)
    IN  AfterElement(parse_element(input))

\* Parser::parse_comma_op
parse_comma_op(input) ==
    LET AfterComma(element, comma) ==
            IF comma.kind = "Ok" THEN POk(<<element.val>>, comma.input) ELSE PErr(input)
        AfterElement(element) ==
            IF element.kind = "Panic" THEN element
            ELSE IF element.kind = "Ok"
                 THEN AfterComma(element, parse_newtype_token(element.input, TokComma))
            ELSE PErr(input)
    IN  AfterElement(parse_element(input))

\* a comma operator that gives back the lone element before a trailing comma
\* as it is
parse_sequence_by_comma_op_Unwrap(input) ==
    LET AfterSequence(comma_op, sequence) ==
            IF sequence.kind = "Panic" THEN sequence
            ELSE IF sequence.kind = "Ok"
                 THEN POk(ArgArray(comma_op.val \o sequence.val), sequence.input)
            ELSE POk(comma_op.val[1], sequence.input)
        AfterCommaOp(comma_op) ==
            IF comma_op.kind = "Panic" THEN comma_op
            ELSE IF comma_op.kind = "Ok"
                 THEN AfterSequence(comma_op, parse_sequence(comma_op.input))
            ELSE PErr(input)
    IN  AfterCommaOp(parse_comma_op(input))

\* Parser::parse_sequence_by_comma_op
parse_sequence_by_comma_op(input) ==
    LET AfterSequence(comma_op, sequence) ==
            IF sequence.kind = "Panic" THEN sequence
            ELSE IF sequence.kind = "Ok"
                 THEN POk(ArgArray(comma_op.val \o sequence.val), sequence.input)
            ELSE POk(ArgArray(comma_op.val), sequence.input)
        AfterCommaOp(comma_op) ==
            IF comma_op.kind = "Panic" THEN comma_op
            ELSE IF comma_op.kind = "Ok"
                 THEN AfterSequence(comma_op, parse_sequence(comma_op.input))
            ELSE PErr(input)
    IN  AfterCommaOp(parse_comma_op(input))

\* Parser::parse_argument
parse_argument(input) ==
    LET OrSkalar(array) ==
            IF array.kind # "Err" THEN array ELSE parse_skalar(array.input)
        OrArray(by_comma) ==
            IF by_comma.kind # "Err" THEN by_comma ELSE OrSkalar(parse_array(by_comma.input))
    IN  OrArray(parse_sequence_by_comma_op(input))

\* from_str, once the lexer has returned: parser.parse_argument()
FromParsed(parsed) ==
    IF parsed.kind = "Ok" THEN [kind |-> "Ok", val |-> parsed.val, reason |-> "None"]
    ELSE IF parsed.kind = "Panic" THEN [kind |-> "Panic", val |-> << >>, reason |-> "None"]
    ELSE [kind |-> "Err", val |-> << >>, reason |-> "Parser"]

\* from_str, the `?` on the result of lexer.lex()
FromLexed(lexed) ==
    IF lexed.kind = "Panic" THEN [kind |-> "Panic", val |-> << >>, reason |-> "None"]
    ELSE IF lexed.kind = "Err" THEN [kind |-> "Err", val |-> << >>, reason |-> "Lexer"]
    ELSE FromParsed(parse_argument(lexed.tokens))

\* from_str: Ok(CliArgument), Err(Error::Lexer), Err(Error::Parser) or a panic
from_str(input) == FromLexed(lex(input))

(***************************************************************************)
(* The parameter binder.  Option<T> is a sequence of length 0 (None) or 1  *)
(* (Some); position counts the arguments already consumed.                 *)
(***************************************************************************)
\* ParameterBinderToken::is_parameter_name
is_parameter_name(t) ==
    starts_with(t, "-") /\ (IF Len(t) >= 2 THEN is_alphabetic(t[2]) ELSE FALSE)

\* ParameterBinderToken::as_parameter_name: self.as_ref()[1..]
as_parameter_name(t) == DropChars(t, 2)

\* ParameterBinder::has_next
has_next(args, position) == position < Len(args)

\* ParameterBinder::peek
peek(args, position, offset) ==
    IF position + offset < Len(args) THEN <<args[position + offset + 1]>> ELSE << >>

ItemOk(name, value) ==
    [kind |-> "Ok", name |-> name, value |-> value, failed_arg |-> << >>, reason |-> "None"]
ItemErr(failed_arg, reason) ==
    [kind |-> "Err", name |-> << >>, value |-> ArgBool(FALSE),
     failed_arg |-> failed_arg, reason |-> reason]
ItemNone  == [kind |-> "None", name |-> << >>, value |-> ArgBool(FALSE),
              failed_arg |-> << >>, reason |-> "None"]
ItemPanic == [kind |-> "Panic", name |-> << >>, value |-> ArgBool(FALSE),
              failed_arg |-> << >>, reason |-> "None"]

\* ParameterBinder::next_parameter_pair: the item returned and the position
\* left.  current is peek(0), next is peek(1) and parsed is from_str(next_arg),
\* which is looked at only where the code calls it.
next_parameter_pair(args, position) ==
    LET Pair(current, next, parsed) ==
            IF current = << >>
            THEN [item |-> ItemErr(<< >>, "ParameterBinder"), position |-> position]
            ELSE IF is_parameter_name(current[1])
            THEN IF next # << >>
                 THEN IF is_parameter_name(next[1])
                      THEN [item |-> ItemOk(as_parameter_name(current[1]), ArgBool(TRUE)),
                            position |-> position + 1]
                      ELSE IF parsed.kind = "Panic"
                      THEN [item |-> ItemPanic, position |-> position]
                      ELSE IF parsed.kind = "Err"
                      THEN [item |-> ItemErr(current, parsed.reason),
                            position |-> position]
                      ELSE [item |-> ItemOk(as_parameter_name(current[1]), parsed.val),
                            position |-> position + 2]
                 ELSE [item |-> ItemOk(as_parameter_name(current[1]), ArgBool(TRUE)),
                       position |-> position + 1]
            ELSE [item |-> ItemErr(current, "ParameterBinder"), position |-> position]
    IN  Pair(peek(args, position, 0), peek(args, position, 1),
             from_str(IF position + 1 < Len(args) THEN args[position + 2] ELSE << >>))

\* Iterator::next of ParameterBinder
binder_next(args, position) ==
    IF has_next(args, position)
    THEN next_parameter_pair(args, position)
    ELSE [item |-> ItemNone, position |-> position]

(***************************************************************************)
(* IndexMap<String, V>: a sequence of entries in insertion order           *)
(***************************************************************************)
MapKeys(map) == [i \in 1..Len(map) |-> map[i].key]

MapHas(map, key) == \E i \in 1..Len(map) : map[i].key = key

MapGet(map, key) == map[CHOOSE i \in 1..Len(map) : map[i].key = key].value

\* a map whose insert keeps the value an existing key already has
IndexMapInsert_FirstWins(map, key, value) ==
    IF MapHas(map, key) THEN map
    ELSE Append(map, [key |-> key, value |-> value])

\* IndexMap::insert: an existing key keeps its place and gets the new value,
\* a new key is appended
IndexMapInsert(map, key, value) ==
    IF MapHas(map, key)
    THEN [i \in 1..Len(map) |->
            IF map[i].key = key THEN [key |-> key, value |-> value] ELSE map[i]]
    ELSE Append(map, [key |-> key, value |-> value])

(***************************************************************************)
(* CommandArguments::try_from                                              *)
(***************************************************************************)
RetNone == [kind |-> "None", map |-> << >>, failed_arg |-> << >>, reason |-> "None"]
RetOk(map) == [kind |-> "Ok", map |-> map, failed_arg |-> << >>, reason |-> "None"]
RetErr(item) ==
    [kind |-> "Err", map |-> << >>, failed_arg |-> item.failed_arg, reason |-> item.reason]

\* a loop that skips the argument of a failing pair and goes on
TryFromIter_SkipFailed(t, n) ==
    IF n.item.kind = "Ok"
    THEN [t EXCEPT !.position = n.position,
                   !.command_map = IndexMapInsert(@, n.item.name, n.item.value)]
    ELSE IF n.item.kind = "Err"
    THEN [t EXCEPT !.position = n.position + 1]
    ELSE IF n.item.kind = "Panic"
    THEN [t EXCEPT !.position = n.position, !.pc = "panicked"]
    ELSE [t EXCEPT !.position = n.position, !.pc = "returned",
                   !.ret = RetOk(t.command_map)]

\* one iteration of the for loop of try_from over the binder, n being what
\* Iterator::next returned: `params?` and command_map.insert, or the return
TryFromIter(t, n) ==
    IF n.item.kind = "Ok"
    THEN [t EXCEPT !.position = n.position,
                   !.command_map = IndexMapInsert(@, n.item.name, n.item.value)]
    ELSE IF n.item.kind = "Err"
    THEN [t EXCEPT !.position = n.position, !.pc = "returned", !.ret = RetErr(n.item)]
    ELSE IF n.item.kind = "Panic"
    THEN [t EXCEPT !.position = n.position, !.pc = "panicked"]
    ELSE [t EXCEPT !.position = n.position, !.pc = "returned",
                   !.ret = RetOk(t.command_map)]

TryFromStart == [position |-> 0, command_map |-> << >>, pc |-> "loop", ret |-> RetNone]

RECURSIVE TryFromRun(_, _)
TryFromRun(args, t) ==
    IF t.pc = "loop"
    THEN TryFromRun(args, TryFromIter(t, binder_next(args, t.position)))
    ELSE t

\* CommandArguments::try_from(args): what it returns ("None" when it panics)
CommandArgumentsTryFrom(args) == TryFromRun(args, TryFromStart).ret

(***************************************************************************)
(* The wire types of restapiv1 and their JSON form.  A JSON value is       *)
(* [kind, val]; a JSON object is the sequence of its [key, value] members  *)
(* in the order they are written.                                          *)
(***************************************************************************)
RealArgument(text) == [kind |-> "RealArgument", val |-> text]
DummyArgument(bit) == [kind |-> "DummyArgument", val |-> bit]

JString(text) == [kind |-> "JString", val |-> text]
JBool(bit)    == [kind |-> "JBool", val |-> bit]
JNumber(text) == [kind |-> "JNumber", val |-> text]
JArray(elems) == [kind |-> "JArray", val |-> elems]
JNull         == [kind |-> "JNull", val |-> << >>]

\* Serialize for the untagged enum Argument
JsonOfArgument(a) ==
    IF a.kind = "RealArgument" THEN JString(a.val) ELSE JBool(a.val)

\* Serialize for the untagged enum Number.  An integer is written in decimal;
\* a float that is not finite is written null, a finite one as the shortest
\* decimal that reads back as the same f64, which is kept here as the literal
\* it was parsed from.
JsonOfNumber(n) ==
    IF n.kind = "PosInt" THEN JNumber(n.digits)
    ELSE IF n.kind = "NegInt"
    THEN JNumber(IF n.neg THEN <<"-">> \o n.digits ELSE n.digits)
    ELSE IF LowerStr(IF Len(n.digits) >= 1 /\ n.digits[1] \in {"+", "-"}
                     THEN DropChars(n.digits, 2) ELSE n.digits)
            \in { <<"i", "n", "f">>, <<"i", "n", "f", "i", "n", "i", "t", "y">>,
                  <<"n", "a", "n">> }
    THEN JNull
    ELSE [kind |-> "JFloat", val |-> n.digits]

RECURSIVE JsonOfCliArgument(_)
\* Serialize for the untagged enum CliArgument
JsonOfCliArgument(v) ==
    CASE v.kind = "String" -> JString(v.val)
      [] v.kind = "Bool"   -> JBool(v.val)
      [] v.kind = "Number" -> JsonOfNumber(v.val)
      [] v.kind = "Array"  -> JArray([i \in 1..Len(v.val) |-> JsonOfCliArgument(v.val[i])])

\* Serialize for CommandArguments(IndexMap<String, CliArgument>)
JsonOfCommandArguments(map) ==
    [i \in 1..Len(map) |-> [key |-> map[i].key, value |-> JsonOfCliArgument(map[i].value)]]

\* Serialize for IndexMap<String, Argument>
JsonOfArgumentMap(map) ==
    [i \in 1..Len(map) |-> [key |-> map[i].key, value |-> JsonOfArgument(map[i].value)]]

(***************************************************************************)
(* cli.rs and client.rs                                                    *)
(***************************************************************************)
Localhost == <<"l", "o", "c", "a", "l", "h", "o", "s", "t">>

DefaultPort == 5668

DefaultTimeout == 60

\* Duration::from_secs(60) of connect_timeout and of timeout
RequestTimeoutSecs == 60

\* Cli::default
CliDefault ==
    [host |-> Localhost, port |-> DefaultPort, command |-> << >>, insecure |-> FALSE,
     timeout |-> DefaultTimeout, forward_args |-> << >>]

\* Cli::parsed.  m is what clap matched: an option that was not given (or,
\* for port and timeout, does not parse as u32) is the empty sequence.
CliParsed(m) ==
    [host         |-> CliDefault.host,
     port         |-> IF m.port # << >> THEN m.port[1] ELSE CliDefault.port,
     command      |-> m.command,
     insecure     |-> m.insecure,
     timeout      |-> IF m.timeout # << >> THEN m.timeout[1] ELSE CliDefault.timeout,
     forward_args |-> m.args]

\* IcingaPsRestApiClient::new
ClientNew(host, port, allow_invalid_certs) ==
    [host |-> host, port |-> port, allow_invalid_certs |-> allow_invalid_certs]

NotDash(c) == c # "-"

\* str::replace("-", "")
RemoveDashes(text) == SelectSeq(text, NotDash)

\* a value taken from the next argument whatever that argument starts with
BuildValue_AnyNext(args, idx) ==
    IF idx + 1 < Len(args)
    THEN RealArgument(args[idx + 2])
    ELSE DummyArgument(TRUE)

\* the value build_command_map binds args[idx] to (idx counts from 0)
BuildValue(args, idx) ==
    IF idx + 1 < Len(args)
    THEN IF starts_with(args[idx + 2], "-")
         THEN DummyArgument(TRUE)
         ELSE RealArgument(args[idx + 2])
    ELSE DummyArgument(TRUE)

\* one iteration of the for loop of build_command_map
BuildIter(args, idx, map) ==
    IF starts_with(args[idx + 1], "-")
    THEN IndexMapInsert(map, RemoveDashes(args[idx + 1]), BuildValue(args, idx))
    ELSE map

\* checker_commnad up to send(): the request that is posted
BuildRequest(client, command, map) ==
    [host |-> client.host, port |-> client.port, command |-> command,
     accept_invalid_certs |-> client.allow_invalid_certs,
     connect_timeout |-> RequestTimeoutSecs, timeout |-> RequestTimeoutSecs,
     body |-> JsonOfArgumentMap(map)]

(***************************************************************************)
(* The response, the verdict and the exit code                             *)
(***************************************************************************)
\* the discriminants of enum ExitCode
ExitOk == 0

ExitWarning == 1

ExitCritical == 2

ExitUnknown == 3

\* a conversion that passes an exit code outside 0..3 through
from_i32_PassThrough(value) ==
    CASE value = 0 -> ExitOk
      [] value = 1 -> ExitWarning
      [] value = 2 -> ExitCritical
      [] value = 3 -> ExitUnknown
      [] OTHER     -> value

\* ExitCode::from_i32
from_i32(value) ==
    CASE value = 0 -> ExitOk
      [] value = 1 -> ExitWarning
      [] value = 2 -> ExitCritical
      [] value = 3 -> ExitUnknown
      [] OTHER     -> ExitUnknown

\* Deserialize for CheckerResult: the untagged enums Exitcode and Perfdata
\* take the first variant that fits, a field that fits none fails the decode
DecodeCheckerResult(w) ==
    IF /\ w.exitcode.kind \in {"Int", "EmptyObject"}
       /\ w.checkresult.kind = "String"
       /\ w.perfdata.kind \in {"String", "Array", "EmptyObject"}
    THEN [kind |-> "Ok",
          exitcode |-> IF w.exitcode.kind = "Int"
                       THEN [kind |-> "Executed", val |-> w.exitcode.val]
                       ELSE [kind |-> "NotExecuted", val |-> 0],
          checkresult |-> w.checkresult.val,
          perfdata |-> CASE w.perfdata.kind = "String" ->
                              [kind |-> "Single", val |-> w.perfdata.val]
                         [] w.perfdata.kind = "Array" ->
                              [kind |-> "Multiple", val |-> w.perfdata.val]
                         [] OTHER -> [kind |-> "None", val |-> << >>]]
    ELSE [kind |-> "Err"]

\* Perfdata::valid
PerfdataValid(p) ==
    CASE p.kind = "None"     -> FALSE
      [] p.kind = "Single"   -> p.val # << >>
      [] p.kind = "Multiple" -> p.val # << >>

RECURSIVE Join(_, _)
\* [String]::join(sep)
Join(parts, sep) ==
    IF parts = << >> THEN << >>
    ELSE IF Len(parts) = 1 THEN parts[1]
    ELSE parts[1] \o sep \o Join(Tail(parts), sep)

\* Display for Perfdata
PerfdataDisplay(p) ==
    CASE p.kind = "Single"   -> p.val
      [] p.kind = "Multiple" -> Join(p.val, <<" ">>)
      [] OTHER               -> << >>

RECURSIVE NormalizeNewlines(_)
\* str::replace("\r\n", "\n")
NormalizeNewlines(text) ==
    IF text = << >> THEN << >>
    ELSE IF Len(text) >= 2 /\ text[1] = "\r" /\ text[2] = "\n"
    THEN <<"\n">> \o NormalizeNewlines(DropChars(text, 3))
    ELSE <<text[1]>> \o NormalizeNewlines(Tail(text))

\* Display for CheckerResult
CheckerResultDisplay(r) ==
    IF PerfdataValid(r.perfdata)
    THEN Join(<<NormalizeNewlines(r.checkresult), PerfdataDisplay(r.perfdata)>>,
              <<" ", "|", " ">>)
    ELSE NormalizeNewlines(r.checkresult)

\* IcingaTermination::exitcode for CheckerResult
CheckerResultExitcode(r) ==
    IF r.exitcode.kind = "Executed" THEN from_i32(r.exitcode.val) ELSE ExitUnknown

\* IcingaTermination::exitcode for Box<dyn Error>
ErrorExitcode == ExitUnknown

\* checker_commnad after send(): the Result it returns for a response.  The
\* entries of the decoded HashMap come in no defined order, so entry is any
\* one of them.
CheckerCommandResult(response, entry) ==
    IF response.kind = "TransportError" THEN [kind |-> "Err", error |-> "Http"]
    ELSE IF response.kind = "Undecodable" THEN [kind |-> "Err", error |-> "JsonDecode"]
    ELSE IF \E e \in response.entries : DecodeCheckerResult(e).kind = "Err"
    THEN [kind |-> "Err", error |-> "JsonDecode"]
    ELSE IF response.entries = {} THEN [kind |-> "Err", error |-> "EmptyResponse"]
    ELSE [kind |-> "Ok", value |-> DecodeCheckerResult(entry)]

(***************************************************************************)
(* State                                                                   *)
(***************************************************************************)
VARIABLES
    \* the parameter binder and CommandArguments::try_from
    input_args,   \* ParameterBinder.input_args
    position,     \* ParameterBinder.position
    consumer,     \* who drives the binder: "iter" calls next() again and again,
                  \* "try_from" is CommandArguments::try_from
    yielded,      \* history: one entry per call of next(), with the position
                  \* before and after the call and the item returned
    command_map,  \* the IndexMap of try_from
    pc,           \* "loop", "returned" or "panicked"
    ret,          \* what try_from returned
    \* is_parameter_name applied to one token
    name_token,   \* the token
    name_result,  \* <<is_parameter_name(token)>> once it was called
    \* main up to the request
    matches,      \* what clap matched on the command line
    cli,          \* the Cli of Cli::parsed
    client,       \* the IcingaPsRestApiClient
    idx,          \* the loop index of build_command_map
    client_map,   \* the IndexMap of build_command_map
    request,      \* the request posted
    main_pc,      \* "start", "parsed", "build", "sent"
    \* main from the response on
    response,     \* what comes back for the request
    result,       \* what checker_commnad returns
    stdout,       \* what report printed
    exit_code,    \* what std::process::exit was called with
    exit_pc,      \* "await", "returned", "exited"
    \* from_str, the lexer taken one character at a time
    lex_input,    \* the input from_str was called with
    lexer,        \* the Lexer
    parser_input, \* Parser.input, the tokens not consumed
    parse_result, \* what from_str returned
    lex_pc,       \* "lexing", "lexed", "returned" or "panicked"
    \* Number::parse applied to one lexeme
    number_lexeme, \* the lexeme
    number_result  \* <<Number::parse(lexeme)>> once it was called

binderVars == <<input_args, position, consumer, yielded, command_map, pc, ret>>

nameVars == <<name_token, name_result>>

mainVars == <<matches, cli, client, idx, client_map, request, main_pc>>

exitVars == <<response, result, stdout, exit_code, exit_pc>>

lexVars == <<lex_input, lexer, parser_input, parse_result, lex_pc>>

numberVars == <<number_lexeme, number_result>>

vars == <<input_args, position, consumer, yielded, command_map, pc, ret,
          name_token, name_result,
          matches, cli, client, idx, client_map, request, main_pc,
          response, result, stdout, exit_code, exit_pc,
          lex_input, lexer, parser_input, parse_result, lex_pc,
          number_lexeme, number_result>>

(***************************************************************************)
(* Bounds and inputs                                                       *)
(***************************************************************************)
\* the longest argument list handed to the binder
MaxArgs == 4

\* next() is called at most this often by the consumer that never stops
MaxCalls == MaxArgs + 2

\* the longest token is_parameter_name is tried on, the examples apart
MaxNameLen == 3

\* the longest forwarded argument list of a command line
MaxForwardArgs == 3

\* the most lines of a perfdata array
MaxPerfLines == 2

\* the longest input from_str is tried on, the examples apart
MaxLexLen == 4

\* the longest lexeme Number::parse is tried on, the examples apart
MaxLexemeLen == 4

RECURSIVE SeqsUpTo(_, _)
\* the sequences over S of length at most n
SeqsUpTo(S, n) ==
    IF n = 0 THEN {<< >>}
    ELSE {q \in SeqsUpTo(S, n - 1) : Len(q) < n - 1}
         \cup {Append(q, x) : q \in {r \in SeqsUpTo(S, n - 1) : Len(r) = n - 1}, x \in S}
         \cup {q \in SeqsUpTo(S, n - 1) : Len(q) = n - 1}

\* the arguments the binder's lists are made of: two flags, a number, a
\* top-level comma list, a value the parser rejects, a negative number and
\* a word with a character outside ASCII
BinderTokens ==
    { <<"-", "a">>, <<"-", "b">>, <<"1">>, <<"0", ",", "1">>, <<"]">>,
      <<"-", "1">>, <<"U+00E9">> }

\* the characters the tokens for is_parameter_name are made of
NameChars == {"-", "a", "Z", "1", "$", ":", "U+00E9"}

\* tokens named by the documentation of the binder and by its tests
NameExamples ==
    { <<"-", "1", "0">>, <<"-", "1", "0", ":", "2", "0">>, <<"-">>,
      <<"-", "$", "T", "r", "u", "e">>,
      <<"-", "W", "a", "r", "n", "i", "n", "g">>,
      <<"-", "U+00DF", "x">> }

\* the arguments a forwarded list is made of
ForwardTokens ==
    { <<"-", "a">>, <<"-", "b">>, <<"x">>, <<"0", ",", "1">>, <<"-", "-", "a">> }

\* what clap can have matched
MatchesSet ==
    [host     : {<< >>, <<<<"h">>>>},
     port     : {<< >>, <<443>>},
     command  : {<<"c", "m", "d">>},
     insecure : BOOLEAN,
     timeout  : {<< >>, <<30>>},
     args     : SeqsUpTo(ForwardTokens, MaxForwardArgs)]

\* the JSON of one CheckerResult as a server can send it
WireResults ==
    [exitcode    : [kind : {"Int"}, val : {-1, 0, 1, 2, 3, 4}]
                   \cup {[kind |-> "EmptyObject", val |-> 0], [kind |-> "Other", val |-> 0]},
     checkresult : [kind : {"String"}, val : {<<"O", "K">>, <<"a", "\r", "\n", "b">>}]
                   \cup {[kind |-> "Other", val |-> << >>]},
     perfdata    : [kind : {"String"}, val : {<< >>, <<"p">>}]
                   \cup [kind : {"Array"}, val : SeqsUpTo({<< >>, <<"p">>}, MaxPerfLines)]
                   \cup {[kind |-> "EmptyObject", val |-> << >>],
                         [kind |-> "Other", val |-> << >>]}]

\* results that differ in their exit code only
PlainResults ==
    {w \in WireResults : /\ w.checkresult = [kind |-> "String", val |-> <<"O", "K">>]
                         /\ w.perfdata.kind = "EmptyObject"}

\* the responses: no response, a body that is no JSON object of results, or
\* an object of no, one or two results
Responses ==
    {[kind |-> "TransportError", entries |-> {}], [kind |-> "Undecodable", entries |-> {}]}
    \cup {[kind |-> "Object", entries |-> {}]}
    \cup {[kind |-> "Object", entries |-> {w}] : w \in WireResults}
    \cup {[kind |-> "Object", entries |-> {v, w}] : v \in PlainResults, w \in PlainResults}

\* the characters the inputs of from_str are made of: the characters with a
\* meaning outside quotes, the characters of quoting and escaping, and the
\* characters of arrays met inside quotes, with one outside ASCII
StructureChars == {"a", "1", ",", "[", "]", "@", "(", ")"}

QuotingChars == {"a", "\"", "'", Backtick, ",", "(", ")", " "}

QuotedChars == {"\"", "'", "[", "]", "@", "1", "U+00E9"}

\* inputs named by the documentation of the lexer and the parser and by
\* their tests, and some longer ones
LexExamples ==
    {
      <<"a", "b", "c", "[", "1", "]">>, <<"[", "1", "]", "2">>,
      <<"\"", "f", "o", "o", ",", "1", "2", "3", "\"">>,
      <<"'", "@", ":", "2", "0">>, <<"(", "C", " ", "'", "m", " ", "s", "'", ")">>,
      <<"(", "(", "a", ")", ")">>, <<"a", "(", "b", ")">>,
      <<"1", ",", "a", ",", "1">>, <<"a", ",", "[", "1", ",", "2", "]">>,
      <<"[", "1", ",", "2", "]">>, <<"@", "(", "a", ",", "1", ")">>,
      <<"@", "(", "1", "]">>, <<"\"", "$", "T", "r", "u", "e", "\"">>,
      <<"'", "1", "2", "3", "'">>, <<"1", "e", "5">>, <<"i", "n", "f">>,
      <<"-", "1", ".", "5">>, <<"+", "1">>,
      <<"$", "F", "a", "l", "s", "e", ",", "$", "T", "r", "u", "e">>,
      <<"\"", "a", Backtick, "\"", "b", "\"">>,
      <<Backtick, "[", "a", Backtick, "]">>, <<"a", "U+00E9">>, <<"@", "a">>,
      <<"a", "@">>, <<"\"", "a">>, <<"(", "a">>, <<"\"", "(", "a", "\"">>,
      <<"\"", "U+00E9", "\"">>
    }

\* the characters the lexemes for Number::parse are made of
NumberChars == {"-", "+", "0", "1", ".", "e"}

\* lexemes at the limits of u64 and i64, and the named floats
NumberExamples ==
    {
      <<"-", "0">>, <<"-", "+", "1">>, <<"+", "1", ".", "0">>, <<"0", "0", "7">>,
      <<"i", "n", "f">>, <<"-", "i", "n", "f">>, <<"N", "a", "N">>,
      <<"I", "n", "f", "i", "n", "i", "t", "y">>, <<"1", "e", "5">>,
      <<"1", "E", "+", "1">>, <<"a", "b", "c">>,
      <<"1", "8", "4", "4", "6", "7", "4", "4", "0", "7", "3", "7", "0", "9", "5", "5", "1", "6", "1", "5">>,
      <<"1", "8", "4", "4", "6", "7", "4", "4", "0", "7", "3", "7", "0", "9", "5", "5", "1", "6", "1", "6">>,
      <<"-", "9", "2", "2", "3", "3", "7", "2", "0", "3", "6", "8", "5", "4", "7", "7", "5", "8", "0", "8">>,
      <<"-", "9", "2", "2", "3", "3", "7", "2", "0", "3", "6", "8", "5", "4", "7", "7", "5", "8", "0", "9">>,
      <<"9", "2", "2", "3", "3", "7", "2", "0", "3", "6", "8", "5", "4", "7", "7", "5", "8", "0", "8">>,
      <<"+", "1", "8", "4", "4", "6", "7", "4", "4", "0", "7", "3", "7", "0", "9", "5", "5", "1", "6", "1", "5">>
    }

(***************************************************************************)
(* Parts of the state a specification does not use                         *)
(***************************************************************************)
BinderIdle ==
    /\ input_args = << >>
    /\ position = 0
    /\ consumer = "none"
    /\ yielded = << >>
    /\ command_map = << >>
    /\ pc = "idle"
    /\ ret = RetNone

NameIdle ==
    /\ name_token = << >>
    /\ name_result = << >>

MainIdle ==
    /\ matches = << >>
    /\ cli = CliDefault
    /\ client = << >>
    /\ idx = 0
    /\ client_map = << >>
    /\ request = << >>
    /\ main_pc = "idle"

ExitIdle ==
    /\ response = << >>
    /\ result = << >>
    /\ stdout = << >>
    /\ exit_code = << >>
    /\ exit_pc = "idle"

LexIdle ==
    /\ lex_input = << >>
    /\ lexer = LexerFromStr(<< >>)
    /\ parser_input = << >>
    /\ parse_result = << >>
    /\ lex_pc = "idle"

NumberIdle ==
    /\ number_lexeme = << >>
    /\ number_result = << >>

(***************************************************************************)
(* Spec: the binder driven by its two consumers                            *)
(***************************************************************************)
\* ParameterBinder::new
Init ==
    /\ input_args \in SeqsUpTo(BinderTokens, MaxArgs)
    /\ position = 0
    /\ consumer \in {"iter", "try_from"}
    /\ yielded = << >>
    /\ command_map = << >>
    /\ pc = "loop"
    /\ ret = RetNone
    /\ NameIdle /\ MainIdle /\ ExitIdle /\ LexIdle /\ NumberIdle

Called(before, n) == [before |-> before, after |-> n.position, item |-> n.item]

\* a consumer calls Iterator::next and keeps the item
IterNext ==
    /\ consumer = "iter"
    /\ pc = "loop"
    /\ Len(yielded) < MaxCalls
    /\ LET Got(n) ==
            /\ position' = n.position
            /\ pc' = IF n.item.kind = "Panic" THEN "panicked" ELSE "loop"
            /\ yielded' = IF n.item.kind = "Panic" THEN yielded
                          ELSE Append(yielded, Called(position, n))
       IN  Got(binder_next(input_args, position))
    /\ UNCHANGED <<input_args, consumer, command_map, ret>>
    /\ UNCHANGED <<nameVars, mainVars, exitVars>>
    /\ UNCHANGED <<lexVars, numberVars>>

\* one iteration of the loop of CommandArguments::try_from
TryFromStep ==
    /\ consumer = "try_from"
    /\ pc = "loop"
    /\ LET Done(n, t) ==
            /\ position' = t.position
            /\ command_map' = t.command_map
            /\ pc' = t.pc
            /\ ret' = t.ret
            /\ yielded' = IF n.item.kind = "Panic" THEN yielded
                          ELSE Append(yielded, Called(position, n))
           Got(n) ==
            Done(n, TryFromIter([position |-> position, command_map |-> command_map,
                                 pc |-> pc, ret |-> ret], n))
       IN  Got(binder_next(input_args, position))
    /\ UNCHANGED <<input_args, consumer>>
    /\ UNCHANGED <<nameVars, mainVars, exitVars>>
    /\ UNCHANGED <<lexVars, numberVars>>

Next == IterNext \/ TryFromStep

Spec == Init /\ [][Next]_vars

(***************************************************************************)
(* SpecNames: is_parameter_name on one token                               *)
(***************************************************************************)
InitNames ==
    /\ name_token \in SeqsUpTo(NameChars, MaxNameLen) \cup NameExamples
    /\ name_result = << >>
    /\ BinderIdle /\ MainIdle /\ ExitIdle /\ LexIdle /\ NumberIdle

CallIsParameterName ==
    /\ name_result = << >>
    /\ name_result' = <<is_parameter_name(name_token)>>
    /\ UNCHANGED name_token
    /\ UNCHANGED <<binderVars, mainVars, exitVars>>
    /\ UNCHANGED <<lexVars, numberVars>>

NextNames == CallIsParameterName

SpecNames == InitNames /\ [][NextNames]_vars

(***************************************************************************)
(* SpecMain: main from the command line to the request                     *)
(***************************************************************************)
InitMain ==
    /\ matches \in MatchesSet
    /\ cli = CliDefault
    /\ client = << >>
    /\ idx = 0
    /\ client_map = << >>
    /\ request = << >>
    /\ main_pc = "start"
    /\ BinderIdle /\ NameIdle /\ ExitIdle /\ LexIdle /\ NumberIdle

\* main: cli::Cli::parsed()
ParseCommandLine ==
    /\ main_pc = "start"
    /\ cli' = CliParsed(matches)
    /\ main_pc' = "parsed"
    /\ UNCHANGED <<matches, client, idx, client_map, request>>
    /\ UNCHANGED <<binderVars, nameVars, exitVars>>
    /\ UNCHANGED <<lexVars, numberVars>>

\* main: IcingaPsRestApiClient::new, then checker_commnad up to the loop of
\* build_command_map
NewClient ==
    /\ main_pc = "parsed"
    /\ client' = ClientNew(cli.host, cli.port, cli.insecure)
    /\ idx' = 0
    /\ client_map' = << >>
    /\ main_pc' = "build"
    /\ UNCHANGED <<matches, cli, request>>
    /\ UNCHANGED <<binderVars, nameVars, exitVars>>
    /\ UNCHANGED <<lexVars, numberVars>>

\* one iteration of the for loop of build_command_map
BuildStep ==
    /\ main_pc = "build"
    /\ idx < Len(cli.forward_args)
    /\ client_map' = BuildIter(cli.forward_args, idx, client_map)
    /\ idx' = idx + 1
    /\ UNCHANGED <<matches, cli, client, request, main_pc>>
    /\ UNCHANGED <<binderVars, nameVars, exitVars>>
    /\ UNCHANGED <<lexVars, numberVars>>

\* checker_commnad: the loop is over, the request is built and sent
SendRequest ==
    /\ main_pc = "build"
    /\ idx = Len(cli.forward_args)
    /\ request' = BuildRequest(client, cli.command, client_map)
    /\ main_pc' = "sent"
    /\ UNCHANGED <<matches, cli, client, idx, client_map>>
    /\ UNCHANGED <<binderVars, nameVars, exitVars>>
    /\ UNCHANGED <<lexVars, numberVars>>

NextMain == ParseCommandLine \/ NewClient \/ BuildStep \/ SendRequest

SpecMain == InitMain /\ [][NextMain]_vars

(***************************************************************************)
(* SpecExit: main from the response to the exit of the process             *)
(***************************************************************************)
InitExit ==
    /\ response \in Responses
    /\ result = << >>
    /\ stdout = << >>
    /\ exit_code = << >>
    /\ exit_pc = "await"
    /\ BinderIdle /\ NameIdle /\ MainIdle /\ LexIdle /\ NumberIdle

\* checker_commnad returns: send()?, response.json()?, the first entry
CheckerCommandReturns ==
    /\ exit_pc = "await"
    /\ \/ /\ response.entries = {}
          /\ result' = CheckerCommandResult(response, << >>)
       \/ \E entry \in response.entries :
             result' = CheckerCommandResult(response, entry)
    /\ exit_pc' = "returned"
    /\ UNCHANGED <<response, stdout, exit_code>>
    /\ UNCHANGED <<binderVars, nameVars, mainVars>>
    /\ UNCHANGED <<lexVars, numberVars>>

\* icinga_exit: report() prints and exits
IcingaExit ==
    /\ exit_pc = "returned"
    /\ IF result.kind = "Ok"
       THEN /\ stdout' = CheckerResultDisplay(result.value) \o <<"\n">>
            /\ exit_code' = <<CheckerResultExitcode(result.value)>>
       ELSE /\ stdout' = <<result.error, "\n">>
            /\ exit_code' = <<ErrorExitcode>>
    /\ exit_pc' = "exited"
    /\ UNCHANGED <<response, result>>
    /\ UNCHANGED <<binderVars, nameVars, mainVars>>
    /\ UNCHANGED <<lexVars, numberVars>>

NextExit == CheckerCommandReturns \/ IcingaExit

SpecExit == InitExit /\ [][NextExit]_vars

(***************************************************************************)
(* SpecLex: from_str, the lexer taken one character at a time              *)
(***************************************************************************)
\* from_str: Lexer::from_str(input)
InitLex ==
    /\ lex_input \in SeqsUpTo(StructureChars, MaxLexLen)
                     \cup SeqsUpTo(QuotingChars, MaxLexLen)
                     \cup SeqsUpTo(QuotedChars, MaxLexLen)
                     \cup LexExamples
    /\ lexer = LexerFromStr(lex_input)
    /\ parser_input = << >>
    /\ parse_result = << >>
    /\ lex_pc = "lexing"
    /\ BinderIdle /\ NameIdle /\ MainIdle /\ ExitIdle /\ NumberIdle

\* one iteration of the while loop of Lexer::lex
LexerStep ==
    /\ lex_pc = "lexing"
    /\ lexer.input # << >>
    /\ lexer' = LexStep(lexer)
    /\ lex_pc' = IF lexer'.status = "Run" THEN "lexing"
                 ELSE IF lexer'.status = "Panic" THEN "panicked"
                 ELSE "lexed"
    /\ UNCHANGED <<lex_input, parser_input, parse_result>>
    /\ UNCHANGED <<binderVars, nameVars, mainVars, exitVars, numberVars>>

\* Lexer::lex leaves the while loop and returns
LexerReturn ==
    /\ lex_pc = "lexing"
    /\ lexer.input = << >>
    /\ lexer' = LexEnd(lexer)
    /\ lex_pc' = "lexed"
    /\ UNCHANGED <<lex_input, parser_input, parse_result>>
    /\ UNCHANGED <<binderVars, nameVars, mainVars, exitVars, numberVars>>

\* from_str: the `?` on what lex returned, then parser.parse_argument()
ParseArgument ==
    /\ lex_pc = "lexed"
    /\ LET Parsed(p) ==
            /\ parser_input' = p.input
            /\ parse_result' = FromParsed(p)
       IN  IF lexer.status = "Err"
           THEN /\ parser_input' = << >>
                /\ parse_result' = FromLexed([kind |-> "Err", tokens |-> << >>])
           ELSE Parsed(parse_argument(lexer.tokens))
    /\ lex_pc' = IF parse_result'.kind = "Panic" THEN "panicked" ELSE "returned"
    /\ UNCHANGED <<lex_input, lexer>>
    /\ UNCHANGED <<binderVars, nameVars, mainVars, exitVars, numberVars>>

NextLex == LexerStep \/ LexerReturn \/ ParseArgument

SpecLex == InitLex /\ [][NextLex]_vars

(***************************************************************************)
(* SpecNumber: Number::parse on one lexeme                                 *)
(***************************************************************************)
InitNumber ==
    /\ number_lexeme \in SeqsUpTo(NumberChars, MaxLexemeLen) \cup NumberExamples
    /\ number_result = << >>
    /\ BinderIdle /\ NameIdle /\ MainIdle /\ ExitIdle /\ LexIdle

CallNumberParse ==
    /\ number_result = << >>
    /\ number_result' = <<NumberParse(number_lexeme)>>
    /\ UNCHANGED number_lexeme
    /\ UNCHANGED <<binderVars, nameVars, mainVars, exitVars, lexVars>>

NextNumber == CallNumberParse

SpecNumber == InitNumber /\ [][NextNumber]_vars

(***************************************************************************)
(* Properties of the binder (Spec)                                         *)
(***************************************************************************)
\* C1: at every cursor position whose token is a parameter name,
\* next_parameter_pair binds the name without its leading '-' to Bool(true)
\* and advances the cursor by exactly 1 when no token follows or the
\* following token is a parameter name itself; otherwise it advances the
\* cursor by exactly 2 and binds the name to from_str(following token).
C1_BindsAndAdvances ==
    \A i \in 1..Len(yielded) :
        LET Walk(e, current, next, switch, parsed) ==
                (e.before < Len(input_args) /\ is_parameter_name(current)) =>
                    IF switch
                    THEN /\ e.item = ItemOk(as_parameter_name(current), ArgBool(TRUE))
                         /\ e.after = e.before + 1
                    ELSE /\ e.after = e.before + 2
                         /\ parsed.kind = "Ok" =>
                                e.item = ItemOk(as_parameter_name(current), parsed.val)
            At(e) ==
                Walk(e,
                     IF e.before < Len(input_args) THEN input_args[e.before + 1] ELSE << >>,
                     IF e.before + 1 < Len(input_args) THEN input_args[e.before + 2] ELSE << >>,
                     \/ e.before + 1 >= Len(input_args)
                     \/ is_parameter_name(input_args[e.before + 2]),
                     from_str(IF e.before + 1 < Len(input_args)
                              THEN input_args[e.before + 2] ELSE << >>))
        IN  At(yielded[i])

\* C4: when the iterator has yielded an Err, the cursor has moved past the
\* failed argument, so that the calls of next() that follow are about later
\* arguments, and a consumer that keeps calling next() gets None after at
\* most as many calls as there are arguments, and one more.
C4_ErrDoesNotPoison ==
    (consumer = "iter" /\ pc = "loop") =>
        /\ \A i \in 1..Len(yielded) :
              yielded[i].item.kind = "Err" => yielded[i].after > yielded[i].before
        /\ Len(yielded) > Len(input_args) =>
              \E i \in 1..Len(yielded) : yielded[i].item.kind = "None"

\* C5: when CommandArguments::try_from returns, every pair before the last
\* call of next() was bound and the calls went through the arguments in
\* order; it returns Err, with no map, exactly when that last call failed:
\* for a token at the cursor that is no parameter name with failed_arg that
\* token and reason ParameterBinder, for a flag whose value from_str rejects
\* with failed_arg the flag and the reason from_str gave.  It returns Ok only
\* when the arguments are used up and each of them is a flag or the value of
\* the flag before it, accepted by from_str.
C5_TryFromStopsAtFirstError ==
    (consumer = "try_from" /\ pc = "returned") =>
        LET Last(e, current, parsed) ==
                IF ret.kind = "Err"
                THEN /\ e.item.kind = "Err"
                     /\ e.before < Len(input_args)
                     /\ ret.map = << >>
                     /\ ret.failed_arg = <<current>>
                     /\ IF is_parameter_name(current)
                        THEN /\ e.before + 1 < Len(input_args)
                             /\ ~is_parameter_name(input_args[e.before + 2])
                             /\ parsed.kind = "Err"
                             /\ ret.reason = parsed.reason
                             /\ ret.reason \in {"Lexer", "Parser"}
                        ELSE ret.reason = "ParameterBinder"
                ELSE /\ ret.kind = "Ok"
                     /\ e.item.kind = "None"
                     /\ e.before = Len(input_args)
            AtLast(e) ==
                Last(e,
                     IF e.before < Len(input_args) THEN input_args[e.before + 1] ELSE << >>,
                     from_str(IF e.before + 1 < Len(input_args)
                              THEN input_args[e.before + 2] ELSE << >>))
        IN  /\ Len(yielded) >= 1
            /\ yielded[1].before = 0
            /\ \A i \in 1..(Len(yielded) - 1) :
                  /\ yielded[i].item.kind = "Ok"
                  /\ yielded[i + 1].before = yielded[i].after
            /\ AtLast(yielded[Len(yielded)])
            /\ ~is_parameter_name(IF input_args = << >> THEN << >> ELSE input_args[1]) =>
                  IF input_args = << >> THEN ret = RetOk(<< >>)
                  ELSE ret = [kind |-> "Err", map |-> << >>,
                              failed_arg |-> <<input_args[1]>>,
                              reason |-> "ParameterBinder"]
            /\ ret.kind = "Ok" =>
                  \A i \in 1..Len(input_args) :
                      \/ is_parameter_name(input_args[i])
                      \/ /\ i > 1
                         /\ is_parameter_name(input_args[i - 1])
                         /\ from_str(input_args[i]).kind = "Ok"

\* try_from has returned the Parser error of the value of a second flag,
\* after it bound the first one
C5_Witness ==
    /\ consumer = "try_from"
    /\ pc = "returned"
    /\ ret.kind = "Err"
    /\ ret.reason = "Parser"
    /\ ret.failed_arg = <<<<"-", "b">>>>
    /\ Len(yielded) = 2
    /\ yielded[1].item.kind = "Ok"

\* C6: the map CommandArguments::try_from returns has one key for each
\* flag name of the argument list and no key twice; the keys are in the
\* order in which the flags appear first in the list, switches between
\* valued flags included, and the value of a key is the one bound by the
\* last occurrence of its flag.
C6_InsertionOrderLastWins ==
    (consumer = "try_from" /\ pc = "returned" /\ ret.kind = "Ok") =>
        LET Flags == {i \in 1..Len(input_args) : is_parameter_name(input_args[i])}
            First(key) ==
                CHOOSE i \in Flags :
                    /\ as_parameter_name(input_args[i]) = key
                    /\ \A j \in Flags : as_parameter_name(input_args[j]) = key => i <= j
            LastOf(key) ==
                CHOOSE i \in Flags :
                    /\ as_parameter_name(input_args[i]) = key
                    /\ \A j \in Flags : as_parameter_name(input_args[j]) = key => j <= i
            Bound(i) ==
                IF i = Len(input_args) THEN ArgBool(TRUE)
                ELSE IF is_parameter_name(input_args[i + 1]) THEN ArgBool(TRUE)
                ELSE from_str(input_args[i + 1]).val
        IN  /\ {ret.map[k].key : k \in 1..Len(ret.map)}
                  = {as_parameter_name(input_args[i]) : i \in Flags}
            /\ \A k \in 1..Len(ret.map) : \A m \in 1..Len(ret.map) :
                  k < m => /\ ret.map[k].key # ret.map[m].key
                           /\ First(ret.map[k].key) < First(ret.map[m].key)
            /\ \A k \in 1..Len(ret.map) :
                  ret.map[k].value = Bound(LastOf(ret.map[k].key))

\* try_from has returned the map of `-a 0,1 -b -a`: a comes before b and is
\* the switch of its last occurrence, not the array of its first
C6_Witness ==
    /\ consumer = "try_from"
    /\ pc = "returned"
    /\ ret.kind = "Ok"
    /\ input_args = << <<"-", "a">>, <<"0", ",", "1">>, <<"-", "b">>, <<"-", "a">> >>
    /\ Len(ret.map) = 2
    /\ ret.map[1] = [key |-> <<"a">>, value |-> ArgBool(TRUE)]
    /\ ret.map[2] = [key |-> <<"b">>, value |-> ArgBool(TRUE)]

(***************************************************************************)
(* Properties of is_parameter_name (SpecNames)                             *)
(***************************************************************************)
\* C2: is_parameter_name(t) is true if and only if t begins with '-' and its
\* second character is an ASCII alphabetic character; '-10', '-10:20', '-'
\* and '-$True' are no names, and neither is a token whose second character
\* is a letter outside ASCII.
C2_AsciiLetterAfterDash ==
    name_result # << >> =>
        /\ name_result[1] <=> /\ Len(name_token) >= 2
                              /\ name_token[1] = "-"
                              /\ is_ascii_alphabetic(name_token[2])
        /\ name_token \in { <<"-", "1", "0">>, <<"-", "1", "0", ":", "2", "0">>, <<"-">>,
                            <<"-", "$", "T", "r", "u", "e">> } => ~name_result[1]

(***************************************************************************)
(* Properties of the request (SpecMain)                                    *)
(***************************************************************************)
\* C3: the JSON body checker_commnad posts for a forwarded argument list is
\* the JSON of the map CommandArguments::try_from binds for that list, with
\* values lexed, parsed and typed: `-a 0,1 -b` posts {"a":[0,1],"b":true}.
C3_BodyIsBoundMap ==
    main_pc = "sent" =>
        LET Same(bound) ==
                bound.kind = "Ok" => request.body = JsonOfCommandArguments(bound.map)
        IN  Same(CommandArgumentsTryFrom(cli.forward_args))

\* C7: build_command_map skips every argument that does not start with '-'
\* and fails on none, so that a list of positionals only gives the empty
\* map; every argument that starts with '-' becomes a key, its text without
\* the dashes, bound to the next argument as a string when there is a next
\* argument that does not start with '-', and to true otherwise.  The
\* property is stated of the map after idx arguments of the loop.
C7_BuildCommandMap ==
    main_pc \in {"build", "sent"} =>
        LET args  == cli.forward_args
            Dashed == {i \in 1..idx : starts_with(args[i], "-")}
            LastOf(key) ==
                CHOOSE i \in Dashed :
                    /\ RemoveDashes(args[i]) = key
                    /\ \A j \in Dashed : RemoveDashes(args[j]) = key => j <= i
            First(key) ==
                CHOOSE i \in Dashed :
                    /\ RemoveDashes(args[i]) = key
                    /\ \A j \in Dashed : RemoveDashes(args[j]) = key => i <= j
            Bound(i) ==
                IF i < Len(args) /\ ~starts_with(args[i + 1], "-")
                THEN RealArgument(args[i + 1])
                ELSE DummyArgument(TRUE)
        IN  /\ idx <= Len(args)
            /\ {client_map[k].key : k \in 1..Len(client_map)}
                  = {RemoveDashes(args[i]) : i \in Dashed}
            /\ \A k \in 1..Len(client_map) : \A m \in 1..Len(client_map) :
                  k < m => /\ client_map[k].key # client_map[m].key
                           /\ First(client_map[k].key) < First(client_map[m].key)
            /\ \A k \in 1..Len(client_map) :
                  client_map[k].value = Bound(LastOf(client_map[k].key))
            /\ Dashed = {} => client_map = << >>
            /\ main_pc = "sent" => idx = Len(args)

\* the request for `x -a -b` is sent: the positional is skipped, and a is a
\* switch, because the argument after it starts with '-'
C7_Witness ==
    /\ main_pc = "sent"
    /\ cli.forward_args = << <<"x">>, <<"-", "a">>, <<"-", "b">> >>
    /\ client_map = << [key |-> <<"a">>, value |-> DummyArgument(TRUE)],
                       [key |-> <<"b">>, value |-> DummyArgument(TRUE)] >>

\* C8: the request goes to the host given by --host, and to localhost when
\* the option is absent; its connect timeout and its total timeout are both
\* the value given by --timeout in seconds, and 60 when the option is absent.
C8_ConnectionOptionsUsed ==
    main_pc = "sent" =>
        /\ request.host = IF matches.host # << >> THEN matches.host[1] ELSE Localhost
        /\ request.connect_timeout =
              IF matches.timeout # << >> THEN matches.timeout[1] ELSE 60
        /\ request.timeout =
              IF matches.timeout # << >> THEN matches.timeout[1] ELSE 60

C10_VerdictFormat ==
    (exit_pc = "exited" /\ result.kind = "Ok") =>
        LET Printed(checkresult, perfdata) ==
                stdout = (IF perfdata # << >>
                          THEN checkresult \o <<" ", "|", " ">> \o perfdata
                          ELSE checkresult) \o <<"\n">>
        IN  Printed(NormalizeNewlines(result.value.checkresult),
                    PerfdataDisplay(result.value.perfdata))

(***************************************************************************)
(* Properties of from_str (SpecLex)                                        *)
(***************************************************************************)
\* C11: for a token stream `e1 , e2 , ... , en` outside any brackets from_str
\* returns Array([e1, ..., en]) with the elements in the order of the input;
\* for `e1 ,` with nothing parseable after the comma it returns the
\* one-element Array([e1]); an element that no comma follows is returned as
\* it is and not wrapped in an array.  The elements are scalars in every
\* input up to the bound, and an array in the input `a,[1,2]`.
C11_TopLevelCommaOperator ==
    lex_pc = "returned" =>
        LET tokens == lexer.tokens
            Skalar(t) == t.kind \in {"String", "Number", "Bool"}
            ValOf(t) ==
                CASE t.kind = "String" -> ArgString(t.val)
                  [] t.kind = "Bool"   -> ArgBool(t.val)
                  [] t.kind = "Number" -> ArgNumber(NumberParse(t.val))
            Alternating ==
                \A i \in 1..Len(tokens) :
                    IF i % 2 = 1 THEN Skalar(tokens[i]) ELSE tokens[i].kind = "Comma"
            Count == (Len(tokens) + 1) \div 2
            Returned(v) == [kind |-> "Ok", val |-> v, reason |-> "None"]
        IN  /\ (Len(tokens) >= 2 /\ Alternating) =>
                  parse_result =
                      Returned(ArgArray([i \in 1..Count |-> ValOf(tokens[2 * i - 1])]))
            /\ (/\ Len(tokens) >= 1
                /\ Skalar(tokens[1])
                /\ Len(tokens) >= 2 => tokens[2].kind # "Comma") =>
                  parse_result = Returned(ValOf(tokens[1]))
            /\ lex_input = <<"a", ",", "[", "1", ",", "2", "]">> =>
                  parse_result =
                      Returned(ArgArray(<<ArgString(<<"a">>),
                                          ArgArray(<<ArgNumber(NumberParse(<<"1">>)),
                                                     ArgNumber(NumberParse(<<"2">>))>>)>>))
            /\ lex_input = <<"[", "1", ",", "2", "]">> =>
                  parse_result =
                      Returned(ArgArray(<<ArgNumber(NumberParse(<<"1">>)),
                                          ArgNumber(NumberParse(<<"2">>))>>))

\* from_str has returned the one-element array of `a,`
C11_Witness ==
    /\ lex_pc = "returned"
    /\ lex_input = <<"a", ",">>
    /\ lexer.tokens = <<TokString(<<"a">>), TokComma>>
    /\ parse_result.kind = "Ok"
    /\ parse_result.val = ArgArray(<<ArgString(<<"a">>)>>)

\* C12: a step of the lexer in SingleQuote or DoubleQuote state emits no
\* Comma, ArrayBegin, ArrayEnd, ArrayOpBegin or ArrayOpEnd token; a comma, a
\* bracket, a parenthesis, '@' or whitespace read in these states is appended
\* to the accumulator.  An argument that is one quoted text therefore lexes
\* to a single token and from_str returns one scalar, not an array, as for
\* "foo,123".
C12_QuotesShieldStructure ==
    /\ [][(/\ lex_pc = "lexing"
           /\ lexer.state \in {"SingleQuote", "DoubleQuote"}
           /\ lexer.input # << >>
           /\ lexer'.status = "Run") =>
              /\ \A i \in 1..Len(lexer'.tokens) :
                    i > Len(lexer.tokens) =>
                        lexer'.tokens[i].kind \in {"String", "Number", "Bool"}
              /\ lexer.input[1] \in {",", "[", "]", "(", ")", "@", " ", "\t"} =>
                    /\ lexer'.buf = Append(lexer.buf, lexer.input[1])
                    /\ lexer'.tokens = lexer.tokens
                    /\ lexer'.state = lexer.state]_vars
    /\ [](LET n == Len(lex_input)
              Quoted ==
                  /\ n >= 3
                  /\ lex_input[1] \in {"\"", "'"}
                  /\ lex_input[n] = lex_input[1]
                  /\ \A i \in 2..(n - 1) :
                        /\ lex_input[i] # lex_input[1]
                        /\ lex_input[i] # "U+00E9"
                        /\ lex_input[1] = "\"" => lex_input[i] # Backtick
          IN  (lex_pc = "returned" /\ Quoted) =>
                  /\ Len(lexer.tokens) = 1
                  /\ lexer.tokens[1].kind \in {"String", "Number", "Bool"}
                  /\ lexer.tokens[1].kind # "Bool" =>
                        lexer.tokens[1].val = SubSeq(lex_input, 2, n - 1)
                  /\ parse_result.kind = "Ok"
                  /\ parse_result.val.kind = lexer.tokens[1].kind)

\* from_str has returned the string foo,123 for the input "foo,123"
C12_Witness ==
    /\ lex_pc = "returned"
    /\ lex_input = <<"\"", "f", "o", "o", ",", "1", "2", "3", "\"">>
    /\ lexer.tokens = <<TokString(<<"f", "o", "o", ",", "1", "2", "3">>)>>
    /\ parse_result.kind = "Ok"
    /\ parse_result.val = ArgString(<<"f", "o", "o", ",", "1", "2", "3">>)

\* C13: a '(' read in Control state, not escaped and not after '@', is put
\* into the accumulator and starts a run; every character read in the run,
\* quotes, commas and whitespace included, is appended as it is and no token
\* is emitted; the first ')' is appended too and closes the run, whatever
\* '(' came before it, and the accumulator is emitted as one String token.
\* For an input that begins with '(' the first token is the input up to and
\* including its first ')'.
C13_ParenthesesRun ==
    /\ [][(lex_pc = "lexing" /\ lexer.input # << >> /\ lexer'.status = "Run") =>
              /\ (/\ lexer.state = "Control"
                  /\ ~lexer.escaping
                  /\ lexer.input[1] = "(") =>
                    /\ lexer'.state = "ParanthesesCmd"
                    /\ lexer'.buf = Append(lexer.buf, "(")
                    /\ lexer'.tokens = lexer.tokens
              /\ (lexer.state = "ParanthesesCmd" /\ lexer.input[1] # ")") =>
                    /\ lexer'.state = "ParanthesesCmd"
                    /\ lexer'.buf = Append(lexer.buf, lexer.input[1])
                    /\ lexer'.tokens = lexer.tokens
              /\ (lexer.state = "ParanthesesCmd" /\ lexer.input[1] = ")") =>
                    /\ lexer'.state = "Control"
                    /\ lexer'.buf = << >>
                    /\ lexer'.tokens =
                          Append(lexer.tokens, TokString(Append(lexer.buf, ")")))]_vars
    /\ [](LET Closes == {i \in 1..Len(lex_input) : lex_input[i] = ")"}
              First == CHOOSE i \in Closes : \A j \in Closes : i <= j
          IN  (/\ lex_pc \in {"lexed", "returned"}
               /\ Len(lex_input) >= 1
               /\ lex_input[1] = "("
               /\ Closes # {}) =>
                  /\ Len(lexer.tokens) >= 1
                  /\ lexer.tokens[1] = TokString(SubSeq(lex_input, 1, First)))

\* the run of `((a))` was closed by the first ')': the token is `((a)`, and
\* the second ')' is an ArrayOpEnd
C13_Witness ==
    /\ lex_pc = "lexed"
    /\ lex_input = <<"(", "(", "a", ")", ")">>
    /\ lexer.tokens = <<TokString(<<"(", "(", "a", ")">>), TokArrayOpEnd>>

\* C14: when the lexer reads '[' in Control state it flushes the accumulator
\* with store_buf_as_token before it emits ArrayBegin, so that a bare word
\* right before '[' is a token of its own ahead of ArrayBegin and is not
\* merged with the characters after the '[': `abc[1]` gives String(abc),
\* ArrayBegin, Number(1), ArrayEnd.
C14_FlushBeforeArrayBegin ==
    /\ [][(/\ lex_pc = "lexing"
           /\ lexer.state = "Control"
           /\ ~lexer.escaping
           /\ lexer.input # << >>
           /\ lexer.input[1] = "["
           /\ lexer'.status = "Run") =>
              /\ lexer'.buf = << >>
              /\ lexer'.tokens =
                    Append(store_buf_as_token(lexer).tokens, TokArrayBegin)]_vars
    /\ []((lex_pc = "lexed" /\ lex_input = <<"a", "b", "c", "[", "1", "]">>) =>
              lexer.tokens = <<TokString(<<"a", "b", "c">>), TokArrayBegin,
                               TokNumber(<<"1">>), TokArrayEnd>>)

\* C15: from_str returns Err(Parser) for every input whose token stream is
\* not exactly one argument of the grammar: it returns Ok only when the
\* parser has consumed the whole token stream, so not when tokens are left
\* over after an argument, as in `[1]2` or `1]`; an empty stream gives
\* Err(Parser), and Parser is the only error.
C15_WholeStreamConsumed ==
    lex_pc = "returned" =>
        /\ parse_result.kind = "Ok" => parser_input = << >>
        /\ lexer.tokens = << >> =>
              parse_result = [kind |-> "Err", val |-> << >>, reason |-> "Parser"]
        /\ parse_result.kind = "Err" => parse_result.reason = "Parser"
        /\ lex_input \in { <<"[", "1">>, <<"1", "]">>, <<"@", "(", "1">>,
                           <<"@", "(", "1", "]">>, <<"[", "1", "]", "2">> } =>
              parse_result.kind = "Err"

\* C16: lex returns Ok whenever the input ends, in whichever state the
\* lexer is then: the text accumulated in an unterminated quote or an
\* unclosed '(' run is flushed as a token and no error is raised, as for
\* `'@:20`, which gives String("@:20"); Error::Lexer is returned for no input.
C16_LexNeverFails ==
    /\ [](/\ lexer.status # "Err"
          /\ lex_pc = "returned" => parse_result.reason # "Lexer")
    /\ [][(lex_pc = "lexing" /\ lexer.input = << >>) =>
              /\ lex_pc' = "lexed"
              /\ lexer'.status = "Run"
              /\ lexer'.buf = << >>
              /\ IF lexer.buf = << >>
                 THEN lexer'.tokens = lexer.tokens
                 ELSE /\ Len(lexer'.tokens) = Len(lexer.tokens) + 1
                      /\ SubSeq(lexer'.tokens, 1, Len(lexer.tokens)) = lexer.tokens
                      /\ lexer'.tokens[Len(lexer'.tokens)].kind
                            \in {"String", "Number", "Bool"}
                      /\ lexer'.tokens[Len(lexer'.tokens)].kind # "Bool" =>
                            lexer'.tokens[Len(lexer'.tokens)].val = lexer.buf]_vars
    /\ []((lex_pc = "lexed" /\ lex_input = <<"'", "@", ":", "2", "0">>) =>
              lexer.tokens = <<TokString(<<"@", ":", "2", "0">>)>>)

\* lex has returned the token of `'@:20`, whose quote is not closed
C16_Witness ==
    /\ lex_pc = "lexed"
    /\ lex_input = <<"'", "@", ":", "2", "0">>
    /\ lexer.state = "SingleQuote"
    /\ lexer.status = "Run"
    /\ lexer.tokens = <<TokString(<<"@", ":", "2", "0">>)>>

\* C17: no token emitted by lex is empty: in every state of the lexer the
\* token list holds no String and no Number of empty text, since the
\* accumulator is flushed only when it is not empty.  No value returned by
\* from_str has a String leaf of empty text, and an empty quoted text, two
\* double quotes or two single quotes, gives no token at all.
C17_NoEmptyToken ==
    LET RECURSIVE NoEmptyLeaf(_)
        NoEmptyLeaf(v) ==
            CASE v.kind = "String" -> v.val # << >>
              [] v.kind = "Array" -> \A i \in 1..Len(v.val) : NoEmptyLeaf(v.val[i])
              [] OTHER -> TRUE
    IN  /\ \A i \in 1..Len(lexer.tokens) :
              lexer.tokens[i].kind \in {"String", "Number"} =>
                  lexer.tokens[i].val # << >>
        /\ (lex_pc = "returned" /\ parse_result.kind = "Ok") =>
              NoEmptyLeaf(parse_result.val)
        /\ (lex_pc \in {"lexed", "returned"}
              /\ lex_input \in {<<"\"", "\"">>, <<"'", "'">>}) =>
              lexer.tokens = << >>

\* from_str has returned for `a,''`: the empty quoted text gave no token and
\* the array has the one element a
C17_Witness ==
    /\ lex_pc = "returned"
    /\ lex_input = <<"a", ",", "'", "'">>
    /\ lexer.tokens = <<TokString(<<"a">>), TokComma>>
    /\ parse_result.kind = "Ok"
    /\ parse_result.val = ArgArray(<<ArgString(<<"a">>)>>)

\* C20: the lexer and the classifier agree.  Every Number token that lex
\* emits holds a lexeme Number::parse accepts, so the unwrap of the
\* classifier's result in parse_skalar does not fail on a token stream made by
\* lex, and from_str does not panic on a numeric token: a panic, if any, is
\* one of the lexer.
C20_LexerAndClassifierAgree ==
    /\ \A i \in 1..Len(lexer.tokens) :
          lexer.tokens[i].kind = "Number" =>
              NumberParse(lexer.tokens[i].val).kind \in {"NegInt", "PosInt", "Float"}
    /\ lex_pc = "panicked" => (lexer.status = "Panic" /\ parse_result = << >>)
    /\ lex_pc = "returned" => parse_result.kind \in {"Ok", "Err"}

\* from_str has returned the Float of the Number token of `1e5`
C20_Witness ==
    /\ lex_pc = "returned"
    /\ lex_input = <<"1", "e", "5">>
    /\ lexer.tokens = <<TokNumber(<<"1", "e", "5">>)>>
    /\ parse_result.kind = "Ok"
    /\ parse_result.val = ArgNumber(NumberParse(<<"1", "e", "5">>))
    /\ parse_result.val.val.kind = "Float"

\* C21: parser backtracking.  Every production of the parser that returns
\* Err leaves the token cursor where it was when the production was entered,
\* at whichever cursor of a lexed token stream it is entered.  In
\* parse_argument therefore only the first alternative that succeeds consumes
\* tokens, every later alternative starts from the original cursor, and a
\* parse_argument that fails leaves the whole stream.
C21_ErrRestoresCursor ==
    lex_pc = "returned" =>
        LET tokens == lexer.tokens
            Restores(production, cursor) ==
                production.kind = "Err" => production.input = cursor
            Alternatives(by_comma, array, skalar) ==
                FromParsed(IF by_comma.kind # "Err" THEN by_comma
                           ELSE IF array.kind # "Err" THEN array
                           ELSE skalar)
        IN  /\ \A k \in 1..(Len(tokens) + 1) :
                  LET cursor == SubSeq(tokens, k, Len(tokens))
                  IN  /\ Restores(parse_sequence_by_comma_op(cursor), cursor)
                      /\ Restores(parse_comma_op(cursor), cursor)
                      /\ Restores(parse_array(cursor), cursor)
                      /\ Restores(parse_sequence(cursor), cursor)
                      /\ Restores(parse_element(cursor), cursor)
                      /\ Restores(parse_skalar(cursor), cursor)
                      /\ \A token \in {TokComma, TokArrayBegin, TokArrayEnd,
                                       TokArrayOpBegin, TokArrayOpEnd} :
                            Restores(parse_newtype_token(cursor, token), cursor)
            /\ lexer.status = "Run" =>
                  /\ parse_result = Alternatives(parse_sequence_by_comma_op(tokens),
                                                 parse_array(tokens),
                                                 parse_skalar(tokens))
                  /\ parse_result.kind = "Err" => parser_input = tokens

\* from_str has returned the array of `[a]`: the comma operator read the
\* whole array as its element, found no comma and failed, and the array
\* alternative started from the first token again
C21_Witness ==
    /\ lex_pc = "returned"
    /\ lex_input = <<"[", "a", "]">>
    /\ lexer.tokens = <<TokArrayBegin, TokString(<<"a">>), TokArrayEnd>>
    /\ parse_element(lexer.tokens) = POk(ArgArray(<<ArgString(<<"a">>)>>), << >>)
    /\ parse_comma_op(lexer.tokens) = PErr(lexer.tokens)
    /\ parse_result.kind = "Ok"
    /\ parse_result.val = ArgArray(<<ArgString(<<"a">>)>>)
    /\ parser_input = << >>

\* C22: every step of the lexer removes exactly one whole character from
\* the remaining input, whatever the input, characters of more than one byte
\* included: lex never slices the input inside a character and never panics,
\* and it returns once the input is used up, after as many steps as the input
\* has characters.
C22_OneWholeCharacterPerStep ==
    /\ [][(lex_pc = "lexing" /\ lexer.input # << >>) =>
              /\ lexer'.input = Tail(lexer.input)
              /\ lexer'.status = "Run"
              /\ lex_pc' = "lexing"]_vars
    /\ [][(lex_pc = "lexing" /\ lexer.input = << >>) => lex_pc' = "lexed"]_vars
    /\ [](/\ lexer.status # "Panic"
          /\ lex_pc # "panicked"
          /\ lex_pc \in {"lexed", "returned"} => lexer.input = << >>)

\* C23: the classification of a token ignores quoting.  Text accumulated
\* inside single or double quotes is classified by store_buf_as_token as bare
\* text is: an argument that is one quoted text whose content parses as a
\* float, or is $True or $False, is returned by from_str as Number or Bool
\* and not as String; `'123'` gives Number(PosInt(123)) and "$True" gives
\* Bool(true).
C23_ClassificationIgnoresQuoting ==
    LET n == Len(lex_input)
        content == SubSeq(lex_input, 2, n - 1)
        Quoted ==
            /\ n >= 3
            /\ lex_input[1] \in {"\"", "'"}
            /\ lex_input[n] = lex_input[1]
            /\ \A i \in 2..(n - 1) :
                  /\ lex_input[i] # lex_input[1]
                  /\ len_utf8(lex_input[i]) = 1
                  /\ lex_input[1] = "\"" => lex_input[i] # Backtick
        Bare == [LexerFromStr(<< >>) EXCEPT !.buf = content]
        Classified ==
            IF ParsesAsF64(content) THEN ArgNumber(NumberParse(content))
            ELSE IF content = <<"$", "T", "r", "u", "e">> THEN ArgBool(TRUE)
            ELSE IF content = <<"$", "F", "a", "l", "s", "e">> THEN ArgBool(FALSE)
            ELSE ArgString(content)
    IN  (lex_pc = "returned" /\ Quoted) =>
            /\ lexer.tokens = store_buf_as_token(Bare).tokens
            /\ parse_result.kind = "Ok"
            /\ parse_result.val = Classified
            /\ lex_input = <<"'", "1", "2", "3", "'">> =>
                  parse_result.val =
                      ArgNumber([kind |-> "PosInt", neg |-> FALSE,
                                 digits |-> <<"1", "2", "3">>])
            /\ lex_input = <<"\"", "$", "T", "r", "u", "e", "\"">> =>
                  parse_result.val = ArgBool(TRUE)

\* from_str has returned the number 123 for the input '123'
C23_Witness ==
    /\ lex_pc = "returned"
    /\ lex_input = <<"'", "1", "2", "3", "'">>
    /\ lexer.tokens = <<TokNumber(<<"1", "2", "3">>)>>
    /\ parse_result.kind = "Ok"
    /\ parse_result.val.kind = "Number"
    /\ parse_result.val.val.kind = "PosInt"
    /\ parse_result.val.val.digits = <<"1", "2", "3">>

(***************************************************************************)
(* Properties of Number::parse (SpecNumber)                                *)
(***************************************************************************)

\* C18: the precedence of the numeric classification.  For every non-empty
\* lexeme Number::parse returns NegInt when the lexeme starts with '-' and
\* parses as a signed 64-bit integer (`-0` is NegInt(0)), PosInt when it does
\* not start with '-' and parses as an unsigned 64-bit integer, Float when
\* neither integer form accepts it and it parses as a double (integers
\* outside the 64-bit ranges included), and None otherwise (`-`, `-+1`);
\* every lexeme has exactly one outcome.
C18_ClassificationPrecedence ==
    (number_result # << >> /\ number_lexeme # << >>) =>
        LET s      == number_lexeme
            r      == number_result[1]
            minus  == s[1] = "-"
            asNeg  == minus /\ ParseI64(s).ok
            asPos  == ~minus /\ ParseU64(s).ok
            Is(lexeme, kind) == s = lexeme => r.kind = kind
        IN  /\ r.kind \in {"NegInt", "PosInt", "Float", "None"}
            /\ r.kind = "NegInt" <=> asNeg
            /\ r.kind = "PosInt" <=> asPos
            /\ r.kind = "Float" <=> (~asNeg /\ ~asPos /\ ParsesAsF64(s))
            /\ r.kind = "None" <=> (~asNeg /\ ~asPos /\ ~ParsesAsF64(s))
            /\ (DigitRun(s, 1) = Len(s) /\ Len(s) <= MaxLexemeLen) =>
                  r = [kind |-> "PosInt", neg |-> FALSE, digits |-> StripZeros(s)]
            /\ (minus /\ Len(s) >= 2 /\ DigitRun(s, 2) = Len(s) - 1
                  /\ Len(s) <= MaxLexemeLen) =>
                  /\ r.kind = "NegInt"
                  /\ r.digits = StripZeros(Tail(s))
                  /\ r.neg = (StripZeros(Tail(s)) # <<"0">>)
            /\ s = <<"-", "0">> =>
                  r = [kind |-> "NegInt", neg |-> FALSE, digits |-> <<"0">>]
            /\ Is(<<"-">>, "None")
            /\ Is(<<"-", "+", "1">>, "None")
            /\ Is(<<"1", ".", "0">>, "Float")
            /\ Is(U64Max, "PosInt")
            /\ Is(Append(SubSeq(U64Max, 1, 19), "6"), "Float")
            /\ Is(<<"-">> \o I64MinAbs, "NegInt")
            /\ Is(Append(<<"-">> \o SubSeq(I64MinAbs, 1, 18), "9"), "Float")
            /\ Is(I64MinAbs, "PosInt")

\* Number::parse has classified `-0` as NegInt(0)
C18_Witness ==
    /\ number_lexeme = <<"-", "0">>
    /\ number_result = <<[kind |-> "NegInt", neg |-> FALSE, digits |-> <<"0">>]>>

\* C19: a lexeme with a leading '+' is rejected by both integer stages of
\* Number::parse and is classified as Float or not at all: `+1` and `+1.0`
\* both give Float, never PosInt.
C19_LeadingPlusIsFloat ==
    (number_result # << >> /\ starts_with(number_lexeme, "+")) =>
        /\ number_result[1].kind \in {"Float", "None"}
        /\ number_lexeme \in {<<"+", "1">>, <<"+", "1", ".", "0">>} =>
              number_result[1].kind = "Float"

====
